---------------------------- MODULE Spec2Model ----------------------------
(***************************************************************************)
(* A model of the Windows prefetch plugin of dissect.target                *)
(* (src/dissect/target/plugins/os/windows/prefetch.py): the Prefetch       *)
(* decoder (envelope detection, outer header, version dispatch, file       *)
(* information block, metrics array, filename resolution) and the          *)
(* PrefetchPlugin.prefetch generator that turns a directory of .pf files   *)
(* into expanded or compact records.                                       *)
(*                                                                         *)
(* Buffers are sequences of bytes (0..255) with the real struct layouts.   *)
(* TLC's integers are 32 bits wide, so 64-bit fields stay little-endian    *)
(* byte sequences and are compared and divided digit by digit; uint32      *)
(* fields that the code does arithmetic on are converted with U32, and the *)
(* corpus keeps their top byte below 128.                                  *)
(***************************************************************************)
EXTENDS Integers, Sequences, FiniteSets, TLC

\* ------------------------------------------------------------------ bytes

Min(a, b) == IF a < b THEN a ELSE b

Zeros(n) == [i \in 1..n |-> 0]

\* The little-endian encoding of n in `w` bytes (corpus construction).
LE(n, w) == [i \in 1..w |-> (n \div (256 ^ (i - 1))) % 256]

\* cstruct's uint32: four bytes, little-endian.
U32(b) == b[1] + 256 * b[2] + 65536 * b[3] + 16777216 * b[4]

\* buf with `bytes` written at byte offset `off` (corpus construction).
Put(buf, off, bytes) ==
    [i \in 1..Len(buf) |->
        IF i > off /\ i <= off + Len(bytes) THEN bytes[i - off] ELSE buf[i]]

\* Python's buf[a:b] for 0 <= a, b: clamped to the buffer.
Slice(buf, a, b) ==
    IF a >= Len(buf) \/ b <= a THEN << >> ELSE SubSeq(buf, a + 1, Min(b, Len(buf)))

RECURSIVE Concat(_)
Concat(ss) == IF ss = << >> THEN << >> ELSE Head(ss) \o Concat(Tail(ss))

\* Characters are code points; ASCII helpers for entry names.
LowerChar(c) == IF c >= 65 /\ c <= 90 THEN c + 32 ELSE c
Lower(s) == [i \in 1..Len(s) |-> LowerChar(s[i])]
EndsWith(s, suf) ==
    Len(s) >= Len(suf) /\ SubSeq(s, Len(s) - Len(suf) + 1, Len(s)) = suf

\* ------------------------------------------------------- layout catalog
\* Each struct is the sequence of its fields, <<name, size in bytes>>, in
\* declaration order.

PREFETCH_HEADER_DETECT == << <<"signature", 4>>, <<"size", 4>> >>

PREFETCH_HEADER ==
    << <<"version", 4>>, <<"signature", 4>>, <<"unknown", 4>>, <<"size", 4>>,
       <<"name", 60>>, <<"hash", 4>>, <<"flag", 4>> >>

FileInfoCommon ==
    << <<"metrics_array_offset", 4>>, <<"number_of_file_metrics_entries", 4>>,
       <<"trace_chain_array_offset", 4>>, <<"number_of_trace_chain_array_entries", 4>>,
       <<"filename_strings_offset", 4>>, <<"filename_strings_size", 4>>,
       <<"volumes_information_offset", 4>>, <<"number_of_volumes", 4>>,
       <<"volumes_information_size", 4>> >>

FILE_INFORMATION_26 ==
    FileInfoCommon \o
    << <<"unknown0", 8>>, <<"last_run_time", 8>>, <<"last_run_remains", 56>>,
       <<"unknown1", 16>>, <<"run_count", 4>>, <<"unknown2", 4>>,
       <<"unknown3", 4>>, <<"unknown4", 88>> >>

FILE_INFORMATION_17 ==
    FileInfoCommon \o
    << <<"last_run_time", 4>>, <<"unknown0", 4>>, <<"run_count", 4>>,
       <<"unknown1", 4>> >>

FILE_INFORMATION_23 ==
    FileInfoCommon \o
    << <<"unknown", 8>>, <<"last_run_time", 8>>, <<"last_run_remains", 16>>,
       <<"run_count", 4>>, <<"unknown0", 4>>, <<"unknown1", 4>>,
       <<"unknown2", 80>> >>

FILE_METRICS_ARRAY_ENTRY_17 ==
    << <<"start_time", 4>>, <<"duration", 4>>, <<"filename_string_offset", 4>>,
       <<"filename_string_number_of_characters", 4>>, <<"flags", 4>> >>

FILE_METRICS_ARRAY_ENTRY_23 ==
    << <<"start_time", 4>>, <<"duration", 4>>, <<"average_duration", 4>>,
       <<"filename_string_offset", 4>>, <<"filename_string_number_of_characters", 4>>,
       <<"flags", 4>>, <<"ntfs_reference", 8>> >>

\* Mutant: the table also accepts version 26, after which the largest file
\* information struct is named.
prefetch_version_structs_with_26 ==
    (17 :> <<FILE_INFORMATION_17, FILE_METRICS_ARRAY_ENTRY_17>>) @@
    (23 :> <<FILE_INFORMATION_23, FILE_METRICS_ARRAY_ENTRY_23>>) @@
    (26 :> <<FILE_INFORMATION_26, FILE_METRICS_ARRAY_ENTRY_23>>) @@
    (30 :> <<FILE_INFORMATION_26, FILE_METRICS_ARRAY_ENTRY_23>>) @@
    (31 :> <<FILE_INFORMATION_26, FILE_METRICS_ARRAY_ENTRY_23>>)

\* version -> <<file information struct, metrics entry struct>>
prefetch_version_structs ==
    (17 :> <<FILE_INFORMATION_17, FILE_METRICS_ARRAY_ENTRY_17>>) @@
    (23 :> <<FILE_INFORMATION_23, FILE_METRICS_ARRAY_ENTRY_23>>) @@
    (30 :> <<FILE_INFORMATION_26, FILE_METRICS_ARRAY_ENTRY_23>>) @@
    (31 :> <<FILE_INFORMATION_26, FILE_METRICS_ARRAY_ENTRY_23>>)

RECURSIVE SizeUpTo(_, _)
SizeUpTo(layout, k) == IF k = 0 THEN 0 ELSE SizeUpTo(layout, k - 1) + layout[k][2]

SizeOf(layout) == SizeUpTo(layout, Len(layout))

FieldIndex(layout, name) == CHOOSE i \in DOMAIN layout : layout[i][1] = name

OffsetOf(layout, name) == SizeUpTo(layout, FieldIndex(layout, name) - 1)

\* ----------------------------------------------------------------- stream
\* A binary stream: [id, data, pos].  id tells the original file handle
\* ("orig") from the BytesIO of the decompressed payload ("decomp").

Stream(id, data) == [id |-> id, data |-> data, pos |-> 0]

Seek(fh, off) == [fh EXCEPT !.pos = off]

\* fh.read(n): the bytes actually available, and the stream after the read.
ReadBytes(fh, n) == Slice(fh.data, fh.pos, fh.pos + n)

AfterRead(fh, n) == [fh EXCEPT !.pos = fh.pos + Len(ReadBytes(fh, n))]

\* cstruct parsing a struct out of `bytes` (exactly SizeOf(layout) of them).
Fields(layout, bytes) ==
    [f \in {layout[i][1] : i \in DOMAIN layout} |->
        SubSeq(bytes, OffsetOf(layout, f) + 1,
                      OffsetOf(layout, f) + layout[FieldIndex(layout, f)][2])]

\* cstruct reading a struct from a stream: EOFError when the stream holds
\* fewer bytes than the struct needs.
StructFits(layout, fh) == Len(ReadBytes(fh, SizeOf(layout))) = SizeOf(layout)

ReadStruct(layout, fh) == Fields(layout, ReadBytes(fh, SizeOf(layout)))


\* ------------------------------------------------------------ text decoding
\* Strings are sequences of code points.

\* The 16-bit little-endian code units of an even-length byte string.
Units(b) == [i \in 1..(Len(b) \div 2) |-> b[2 * i - 1] + 256 * b[2 * i]]

IsHighSurrogate(u) == u >= 55296 /\ u <= 56319
IsLowSurrogate(u) == u >= 56320 /\ u <= 57343
Astral(hi, lo) == 65536 + (hi - 55296) * 1024 + (lo - 56320)

DecodeError == [ok |-> FALSE, s |-> << >>]

\* bytes.decode("utf-16-le") over code units: an unpaired surrogate raises.
RECURSIVE DecodeUnitsStrict(_)
DecodeUnitsStrict(us) ==
    IF us = << >> THEN [ok |-> TRUE, s |-> << >>]
    ELSE IF IsHighSurrogate(us[1])
    THEN IF Len(us) >= 2 /\ IsLowSurrogate(us[2])
         THEN LET r == DecodeUnitsStrict(Tail(Tail(us)))
              IN  [ok |-> r.ok, s |-> IF r.ok THEN <<Astral(us[1], us[2])>> \o r.s ELSE << >>]
         ELSE DecodeError
    ELSE IF IsLowSurrogate(us[1]) THEN DecodeError
    ELSE LET r == DecodeUnitsStrict(Tail(us))
         IN  [ok |-> r.ok, s |-> IF r.ok THEN <<us[1]>> \o r.s ELSE << >>]

\* filename.decode("utf-16-le"): strict; an odd number of bytes raises too.
DecodeUtf16Strict(b) ==
    IF Len(b) % 2 = 1 THEN DecodeError ELSE DecodeUnitsStrict(Units(b))

\* errors="ignore": an unpaired surrogate or a trailing odd byte is dropped.
RECURSIVE DecodeUnitsIgnore(_)
DecodeUnitsIgnore(us) ==
    IF us = << >> THEN << >>
    ELSE IF IsHighSurrogate(us[1])
    THEN IF Len(us) >= 2 /\ IsLowSurrogate(us[2])
         THEN <<Astral(us[1], us[2])>> \o DecodeUnitsIgnore(Tail(Tail(us)))
         ELSE DecodeUnitsIgnore(Tail(us))
    ELSE IF IsLowSurrogate(us[1]) THEN DecodeUnitsIgnore(Tail(us))
    ELSE <<us[1]>> \o DecodeUnitsIgnore(Tail(us))

DecodeUtf16Ignore(b) == DecodeUnitsIgnore(Units(b))

\* s.split("\x00")[0]: the part before the first NUL character.
RECURSIVE BeforeNul(_)
BeforeNul(s) ==
    IF s = << >> \/ s[1] = 0 THEN << >> ELSE <<s[1]>> \o BeforeNul(Tail(s))

\* target.fs.path(s): a path object made of the string.
FsPath(s) == [path |-> s]

\* --------------------------------------------------------------- timestamps
\* Tick counts are little-endian byte strings; a uint32 is widened to 8 bytes.

Widen(b) == b \o Zeros(8 - Len(b))

IsZero(b) == \A i \in DOMAIN b : b[i] = 0

\* -1, 0, 1 as a < b, a = b, a > b, comparing from byte i down.
RECURSIVE CmpFrom(_, _, _)
CmpFrom(a, b, i) ==
    IF i = 0 THEN 0
    ELSE IF a[i] > b[i] THEN 1
    ELSE IF a[i] < b[i] THEN -1
    ELSE CmpFrom(a, b, i - 1)

\* The remainder mod 10 of the number made of bytes i.. (most significant last).
RECURSIVE RemFrom(_, _)
RemFrom(b, i) == IF i > Len(b) THEN 0 ELSE (RemFrom(b, i + 1) * 256 + b[i]) % 10

DivTen(b) == [i \in 1..Len(b) |-> (RemFrom(b, i + 1) * 256 + b[i]) \div 10]

\* The first tick count past 9999-12-31T23:59:59.999999Z, the last instant a
\* datetime can hold: 2650467744000000000.
DatetimeEndTicks == <<0, 64, 192, 209, 94, 90, 200, 36>>

\* wintimestamp(ts) raises (the datetime is out of range) from there on.
WinTimestampRaises(ticks) == CmpFrom(Widen(ticks), DatetimeEndTicks, 8) >= 0

\* wintimestamp(ts): the instant, in microseconds since 1601-01-01 (100 ns
\* ticks / 10; the float rounding of the last digits is left out).
wintimestamp(ticks) == DivTen(Widen(ticks))

\* ------------------------------------------------------------ decompression
\* lzxpress_huffman.decompress is an external primitive.  It is stood in for
\* by a run-length code, <<count, byte>> pairs with count >= 1: it consumes
\* the stream from its current position to the end, fails on a malformed
\* payload and is not the identity.

RleValid(p) ==
    /\ Len(p) % 2 = 0
    /\ \A k \in 1..(Len(p) \div 2) : p[2 * k - 1] >= 1

\* The pairs are expanded by halves, to keep the recursion shallow.
RECURSIVE RleDecode(_)
RleDecode(p) ==
    IF p = << >> THEN << >>
    ELSE IF Len(p) = 2 THEN [i \in 1..p[1] |-> p[2]]
    ELSE LET h == 2 * (Len(p) \div 4)
         IN  RleDecode(SubSeq(p, 1, h)) \o RleDecode(SubSeq(p, h + 1, Len(p)))

\* Mutant: the stream is rewound before it is decompressed.
PayloadFromStart(fh) == Slice(fh.data, 0, Len(fh.data))

Payload(fh) == Slice(fh.data, fh.pos, Len(fh.data))

DecompressFails(fh) == ~RleValid(Payload(fh))

Decompress(fh) == RleDecode(Payload(fh))


\* ------------------------------------------------------------------ corpus
\* The files the model decodes.  They are encoded here from their meaning
\* (version, names, tick counts, run count) with the offsets of the on-disk
\* format written out, independently of the decoder's layout tables.

\* Where the fields the decoder consumes sit, per format version.
Format(v) ==
    IF v = 17
    THEN [info |-> 52, entry |-> 20, lastAt |-> 36, remAt |-> 0,
          countAt |-> 44, offAt |-> 8, lenAt |-> 12]
    ELSE IF v = 23
    THEN [info |-> 160, entry |-> 32, lastAt |-> 44, remAt |-> 52,
          countAt |-> 68, offAt |-> 12, lenAt |-> 16]
    ELSE [info |-> 224, entry |-> 32, lastAt |-> 44, remAt |-> 52,
          countAt |-> 124, offAt |-> 12, lenAt |-> 16]

\* UTF-16-LE of an ASCII string.
Ascii16(s) == [i \in 1..(2 * Len(s)) |-> IF i % 2 = 1 THEN s[(i + 1) \div 2] ELSE 0]

Pad(b, n) == b \o Zeros(n - Len(b))

TickZ == Zeros(8)
Tick1 == <<0, 0, 90, 246, 76, 245, 212, 1>>
Tick2 == <<7, 128, 147, 81, 206, 103, 209, 1>>
Tick3 == <<19, 0, 205, 172, 79, 218, 205, 1>>
Tick17 == <<16, 32, 48, 64>>
\* The same instants in microseconds since 1601 (computed by hand).
Micro1 == <<0, 0, 9, 127, 84, 229, 46, 0>>
Micro2 == <<0, 192, 142, 110, 97, 138, 46, 0>>
Micro3 == <<1, 128, 20, 94, 110, 47, 46, 0>>
Micro17 == <<104, 54, 107, 6, 0, 0, 0, 0>>

\* "A.DLL", "B.DLL", "K.DLL", "N", "X", "C.EXE", "P.EXE"
NameA == <<65, 46, 68, 76, 76>>
NameB == <<66, 46, 68, 76, 76>>
NameK == <<75, 46, 68, 76, 76>>
NameN == <<78>>
NameX == <<88>>
ExeC == <<67, 46, 69, 88, 69>>
ExeP == <<80, 46, 69, 88, 69>>

\* The valid files, by meaning.  lastUs and prevUs are the instants a correct
\* decode reports.
Samples ==
    << [v |-> 17, exe |-> ExeC, names |-> <<NameA, NameB>>, last |-> Tick17,
        lastUs |-> Micro17, remains |-> << >>, prevUs |-> << >>, runs |-> 5],
       [v |-> 23, exe |-> ExeP, names |-> <<NameA, NameA>>, last |-> Tick1,
        lastUs |-> Micro1, remains |-> <<Tick2, TickZ>>, prevUs |-> <<Micro2>>,
        runs |-> 3],
       [v |-> 30, exe |-> ExeC, names |-> <<NameK, NameN>>, last |-> Tick1,
        lastUs |-> Micro1,
        remains |-> <<Tick2, Tick3, TickZ, TickZ, TickZ, TickZ, TickZ>>,
        prevUs |-> <<Micro2, Micro3>>, runs |-> 7],
       [v |-> 31, exe |-> ExeP, names |-> <<NameX>>, last |-> Tick2,
        lastUs |-> Micro2,
        remains |-> <<TickZ, Tick3, TickZ, TickZ, TickZ, TickZ, Tick1>>,
        prevUs |-> <<Micro3, Micro1>>, runs |-> 1],
       [v |-> 30, exe |-> ExeP, names |-> << >>, last |-> Tick3,
        lastUs |-> Micro3,
        remains |-> <<TickZ, TickZ, TickZ, TickZ, TickZ, TickZ, TickZ>>,
        prevUs |-> << >>, runs |-> 0] >>

\* Offsets of the regions of an encoded sample.
MetricsAt(p) == 84 + Format(p.v).info
StringsAt(p) == MetricsAt(p) + Len(p.names) * Format(p.v).entry

\* Offset of the k-th name inside the strings region (names are
\* NUL-terminated there).
RECURSIVE NameAt(_, _)
NameAt(p, k) == IF k = 1 THEN 0 ELSE NameAt(p, k - 1) + 2 * Len(p.names[k - 1]) + 2

EncodedSize(p) == StringsAt(p) + NameAt(p, Len(p.names) + 1)

EncodeHeader(p) ==
    LE(p.v, 4) \o <<83, 67, 67, 65>> \o LE(17, 4) \o LE(EncodedSize(p), 4)
    \o Pad(Ascii16(p.exe), 60) \o <<222, 173, 190, 111>> \o LE(0, 4)

EncodeInfo(p) ==
    LET f == Format(p.v)
        b0 == Zeros(f.info)
        b1 == Put(b0, 0, LE(MetricsAt(p), 4))
        b2 == Put(b1, 4, LE(Len(p.names), 4))
        b3 == Put(b2, 16, LE(StringsAt(p), 4))
        b4 == Put(b3, 20, LE(NameAt(p, Len(p.names) + 1), 4))
        b5 == Put(b4, 24, LE(EncodedSize(p), 4))
        b6 == Put(b5, f.lastAt, p.last)
        b7 == Put(b6, f.remAt, Concat(p.remains))
    IN  Put(b7, f.countAt, LE(p.runs, 4))

EncodeEntry(p, k) ==
    LET f == Format(p.v)
        b0 == Put(Zeros(f.entry), 0, LE(k, 4))
        b1 == Put(b0, f.offAt, LE(NameAt(p, k), 4))
    IN  Put(b1, f.lenAt, LE(Len(p.names[k]), 4))

Encode(p) ==
    EncodeHeader(p) \o EncodeInfo(p)
    \o Concat([k \in 1..Len(p.names) |-> EncodeEntry(p, k)])
    \o Concat([k \in 1..Len(p.names) |-> Ascii16(p.names[k]) \o <<0, 0>>])

\* The run-length stand-in's encoder, and the compressed envelope: the
\* detect header ("MAM\x04", decompressed size) and the payload.
\* A run is a stretch of equal bytes found by halving, 200 bytes at most.
RECURSIVE RleEncode(_)
RleEncode(b) ==
    IF b = << >> THEN << >>
    ELSE IF Len(b) <= 200 /\ \A i \in DOMAIN b : b[i] = b[1] THEN <<Len(b), b[1]>>
    ELSE LET h == Len(b) \div 2
         IN  RleEncode(SubSeq(b, 1, h)) \o RleEncode(SubSeq(b, h + 1, Len(b)))

MAM == <<77, 65, 77, 4>>

Envelope(b) == MAM \o LE(Len(b), 4) \o RleEncode(b)


Raw(s) == Encode(Samples[s])

Truncate(b, n) == SubSeq(b, 1, n)

\* ".pf", ".PF", ".txt"
ExtPf == <<46, 112, 102>>
ExtPfUpper == <<46, 80, 70>>
ExtTxt == <<46, 116, 120, 116>>

\* A file of the corpus: the extension of its directory entry, its bytes, and
\* what it is: kind "valid" (Samples[sample] as encoded), "wrapped" (the
\* same inside the envelope), or a corruption of Samples[sample].
File(ext, data, kind, s, cut) ==
    [ext |-> ext, data |-> data, kind |-> kind, sample |-> s, cut |-> cut]

\* Samples[2] with version 26 in its outer header.
BadVersion == Put(Raw(2), 0, LE(26, 4))
\* Samples[3] with last_run_time 0xFFFFFFFFFFFFFFFF.
BadLastRun == Put(Raw(3), 84 + 44, [i \in 1..8 |-> 255])
\* Samples[2] with last_run_remains[1] = 2^63.
BadPreviousRun == Put(Raw(2), 84 + 52 + 8, <<0, 0, 0, 0, 0, 0, 0, 128>>)
\* Samples[1] with an unpaired surrogate as the first character of "A.DLL".
BadName == Put(Raw(1), StringsAt(Samples[1]), <<0, 216>>)
\* An envelope whose payload does not decompress.
BadEnvelope == MAM \o LE(100, 4) \o <<0, 7, 3>>
\* Samples[2] whose executable name, "P.EXE", is replaced by: an unpaired
\* high surrogate, "Q", an unpaired low surrogate, "R", NUL, "Z".
BadExeName ==
    Put(Raw(2), 16, <<0, 216, 81, 0, 0, 220, 82, 0, 0, 0, 90, 0>>)
\* Samples[s] with `sig` as the signature field of its outer header.
Resign(b, sig) == Put(b, 4, sig)

BatchCorpus ==
    << File(ExtPfUpper, Raw(1), "valid", 1, 0),
       File(ExtPf, Raw(2), "valid", 2, 0),
       File(ExtPf, Raw(3), "valid", 3, 0),
       File(ExtPf, Raw(4), "valid", 4, 0),
       File(ExtPf, Raw(5), "valid", 5, 0),
       File(ExtPf, Envelope(Raw(1)), "wrapped", 1, 0),
       File(ExtPf, Envelope(Raw(2)), "wrapped", 2, 0),
       File(ExtPf, Envelope(Raw(3)), "wrapped", 3, 0),
       File(ExtTxt, Raw(1), "notpf", 1, 0),
       File(ExtPf, BadVersion, "badversion", 2, 0),
       File(ExtPf, Envelope(BadVersion), "badversion", 2, 0),
       File(ExtPf, Put(Raw(1), 0, LE(0, 4)), "badversion", 1, 0),
       File(ExtPf, BadEnvelope, "badenvelope", 0, 0),
       File(ExtPf, Truncate(MAM \o Zeros(4), 6), "short", 0, 6),
       File(ExtPf, BadLastRun, "badtime", 3, 0),
       File(ExtPf, BadPreviousRun, "badtime", 2, 0),
       File(ExtPf, BadName, "badname", 1, 0),
       File(ExtPf, Truncate(Raw(2), MetricsAt(Samples[2]) + 40), "truncated", 2,
            MetricsAt(Samples[2]) + 40),
       File(ExtPf, Resign(Raw(2), Zeros(4)), "resigned", 2, 0),
       File(ExtPf, Resign(Raw(1), MAM), "resigned", 1, 0),
       File(ExtPf, Envelope(Resign(Raw(3), <<255, 255, 255, 255>>)), "resigned", 3, 0),
       File(ExtPf, Resign(BadName, Zeros(4)), "badname", 1, 0),
       File(ExtPf, BadExeName, "badexe", 2, 0),
       File(ExtPf, Truncate(Raw(1), StringsAt(Samples[1]) + 3), "truncated", 1,
            StringsAt(Samples[1]) + 3) >>

\* Every proper prefix of every valid file, raw and (for Samples[2]) wrapped.
Truncations ==
    Concat([s \in 1..Len(Samples) |->
              [n \in 1..Len(Raw(s)) |->
                  File(ExtPf, Truncate(Raw(s), n - 1), "truncated", s, n - 1)]])
    \o [n \in 1..Len(Envelope(Raw(2))) |->
          File(ExtPf, Truncate(Envelope(Raw(2)), n - 1), "cutenvelope", 2, n - 1)]

Corpus == BatchCorpus \o Truncations


\* ------------------------------------------------------------------- state

\* The longest directory the batch specification lists.
MaxDir == 2

\* Mutant: the file information block is sought four bytes too far.
FileInfoOffsetShifted == 84 + 4

\* Prefetch.parse seeks here for the file information block.
FileInfoOffset == 84

VARIABLES
    dir,        \* the directory listing: indices into Corpus, in iteration order
    compact,    \* prefetch(compact=...)
    idx,        \* position of the for loop over the directory
    pc,         \* where the generator stands
    fh,         \* the stream object the constructor reads (fh, then self.fh)
    scca,       \* the Prefetch object (self while it is built, scca afterwards)
    metrics,    \* parse_metrics' local list
    run_dates,  \* prefetch's local run_dates
    cur,        \* <<i, j>>: position of the two nested yield loops
    records,    \* the records yielded so far
    log,        \* target.log.warning calls: the directory positions warned about
    trace,      \* history: the reads and decompressions on the current file
    results,    \* history: per directory entry passed, how its construction ended
    w3c         \* parse_w3c_format_log (iis.py): its lines, locals, output and log

vars == <<dir, compact, idx, pc, fh, scca, metrics, run_dates, cur, records,
          log, trace, results, w3c>>

\* The variables of the prefetch plugin.
prefetch_vars == <<dir, compact, idx, pc, fh, scca, metrics, run_dates, cur,
                   records, log, trace, results>>

None == [some |-> FALSE]
Some(v) == [some |-> TRUE, v |-> v]

NoStream == [id |-> "none", data |-> << >>, pos |-> 0]

\* scca.fh names the stream object self.fh refers to; its bytes and position
\* are the variable fh.  scca.of is history: the directory position of the
\* file the object is built from.
NoScca ==
    [of |-> 0, fh |-> "none", header |-> None, version |-> None,
     volumes |-> None, metrics |-> None, fn |-> None]

Entry(i) == Corpus[dir[i]]

\* entry.name: directory entries have distinct names, "A", "B", ... with the
\* file's extension.
EntryName(i) == <<64 + i>> \o Entry(i).ext

Event(op, stream) == [op |-> op, id |-> stream.id, at |-> stream.pos]

RECURSIVE SeqsUpTo(_, _)
SeqsUpTo(S, n) ==
    IF n = 0 THEN {<< >>}
    ELSE SeqsUpTo(S, n - 1) \cup {Append(q, x) : q \in SeqsUpTo(S, n - 1), x \in S}

\* parse_w3c_format_log was not called.
NoLog ==
    [lines |-> << >>, at |-> 1, fields |-> << >>, extra_fields |-> << >>,
     record_descriptor |-> None, records |-> << >>, warnings |-> << >>,
     pc |-> "idle"]

InitRest ==
    /\ compact \in BOOLEAN
    /\ idx = 1
    /\ pc = "iter"
    /\ fh = NoStream
    /\ scca = NoScca
    /\ metrics = << >>
    /\ run_dates = << >>
    /\ cur = <<1, 1>>
    /\ records = << >>
    /\ log = << >>
    /\ trace = << >>
    /\ results = << >>

\* A directory of up to MaxDir files of the batch corpus.
Init ==
    /\ dir \in SeqsUpTo(DOMAIN BatchCorpus, MaxDir)
    /\ InitRest
    /\ w3c = NoLog

\* A directory holding one file, any of the corpus.
InitDecode ==
    /\ dir \in {<<c>> : c \in DOMAIN Corpus}
    /\ InitRest
    /\ w3c = NoLog

\* ----------------------------------------------------- Prefetch properties

Header(obj) == obj.header.v
Fn(obj) == obj.fn.v

\* The 8-byte slots of fn.last_run_remains.
Slots(b) == [i \in 1..(Len(b) \div 8) |-> SubSeq(b, 8 * i - 7, 8 * i)]

NonZero(t) == ~IsZero(t)

LatestRaises(obj) == WinTimestampRaises(Fn(obj)["last_run_time"])

latest_timestamp(obj) == wintimestamp(Fn(obj)["last_run_time"])

\* Mutant: the test "if timestamp != 0" is missing.
UsedSlotsUnfiltered(obj) ==
    IF "last_run_remains" \in DOMAIN Fn(obj)
    THEN Slots(Fn(obj)["last_run_remains"])
    ELSE << >>

\* The slots previous_timestamps converts.
UsedSlots(obj) ==
    IF "last_run_remains" \in DOMAIN Fn(obj)
    THEN SelectSeq(Slots(Fn(obj)["last_run_remains"]), NonZero)
    ELSE << >>

PreviousRaises(obj) ==
    \E i \in DOMAIN UsedSlots(obj) : WinTimestampRaises(UsedSlots(obj)[i])

previous_timestamps(obj) ==
    [i \in DOMAIN UsedSlots(obj) |-> wintimestamp(UsedSlots(obj)[i])]

\* Mutant: run_dates holds the latest timestamp only.
RunDatesLatestOnly(obj) == <<latest_timestamp(obj)>>

\* [scca.latest_timestamp, *scca.previous_timestamps]
RunDates(obj) == <<latest_timestamp(obj)>> \o previous_timestamps(obj)

\* Mutant: the signature compared with is b"MAM", one byte short.
EnvelopeSignatureShort == <<77, 65, 77>>

\* b"MAM\x04", the signature of the compressed envelope.
EnvelopeSignature == <<77, 65, 77, 4>>

\* Mutant: the stream position is not reset after the read.
read_filename_no_reset(stream, off, size) ==
    LET at == Seek(stream, off)
    IN  [data |-> ReadBytes(at, size * 2), fh |-> AfterRead(at, size * 2)]

\* Mutant: the position is saved after the seek to the filename, so that the
\* stream is left at the filename.
read_filename_tell_after_seek(stream, off, size) ==
    LET at == Seek(stream, off)
        offset == at.pos
    IN  [data |-> ReadBytes(at, size * 2),
         fh |-> Seek(AfterRead(at, size * 2), offset)]

\* read_filename(off, size): the bytes read, and the stream afterwards.
read_filename(stream, off, size) ==
    LET offset == stream.pos
        at == Seek(stream, off)
    IN  [data |-> ReadBytes(at, size * 2),
         fh |-> Seek(AfterRead(at, size * 2), offset)]

\* ----------------------------------------------------------------- actions

\* except Exception: log a warning and continue with the next entry.  The
\* object whose construction failed is never bound to scca; the model keeps
\* its fields, as they were when it failed, until the next file is opened.
Caught ==
    /\ log' = Append(log, idx)
    /\ results' = Append(results, [status |-> "failed", obj |-> NoScca])
    /\ idx' = idx + 1
    /\ pc' = "iter"
    /\ UNCHANGED <<w3c, dir, compact, fh, scca, metrics, run_dates, cur, records>>

\* for entry in iterdir(): the listing is exhausted.
StopIteration ==
    /\ pc = "iter"
    /\ idx > Len(dir)
    /\ pc' = "done"
    /\ UNCHANGED <<w3c, dir, compact, idx, fh, scca, metrics, run_dates, cur, records,
                   log, trace, results>>

\* An entry whose name does not end with ".pf" is passed over.
SkipEntry ==
    /\ pc = "iter"
    /\ idx <= Len(dir)
    /\ ~EndsWith(Lower(EntryName(idx)), ExtPf)
    /\ idx' = idx + 1
    /\ results' = Append(results, [status |-> "skipped", obj |-> NoScca])
    /\ UNCHANGED <<w3c, dir, compact, pc, fh, scca, metrics, run_dates, cur, records,
                   log, trace>>

\* Prefetch(entry.open()) is entered.
OpenEntry ==
    /\ pc = "iter"
    /\ idx <= Len(dir)
    /\ EndsWith(Lower(EntryName(idx)), ExtPf)
    /\ fh' = Stream("orig", Entry(idx).data)
    /\ scca' = [NoScca EXCEPT !.of = idx]
    /\ trace' = << >>
    /\ pc' = "detect"
    /\ UNCHANGED <<w3c, dir, compact, idx, metrics, run_dates, cur, records, log, results>>

\* header_detect = PREFETCH_HEADER_DETECT(fh.read(8)) and the signature test.
DetectEnvelope ==
    /\ pc = "detect"
    /\ trace' = Append(trace, Event("detect", fh))
    /\ IF Len(ReadBytes(fh, 8)) < SizeOf(PREFETCH_HEADER_DETECT)
       THEN Caught
       ELSE /\ fh' = AfterRead(fh, 8)
            /\ pc' = IF Fields(PREFETCH_HEADER_DETECT, ReadBytes(fh, 8))["signature"]
                        = EnvelopeSignature
                     THEN "decompress" ELSE "header"
            /\ UNCHANGED <<w3c, dir, compact, idx, scca, metrics, run_dates, cur,
                           records, log, results>>

\* Mutant: when the decompression fails the raw bytes are parsed instead.
DecompressEnvelopeFallsBack ==
    /\ pc = "decompress"
    /\ trace' = Append(trace, Event("decompress", fh))
    /\ fh' = IF DecompressFails(fh) THEN fh ELSE Stream("decomp", Decompress(fh))
    /\ pc' = "header"
    /\ UNCHANGED <<w3c, dir, compact, idx, scca, metrics, run_dates, cur, records, log,
                   results>>

\* fh = BytesIO(lzxpress_huffman.decompress(fh))
DecompressEnvelope ==
    /\ pc = "decompress"
    /\ trace' = Append(trace, Event("decompress", fh))
    /\ IF DecompressFails(fh)
       THEN Caught
       ELSE /\ fh' = Stream("decomp", Decompress(fh))
            /\ pc' = "header"
            /\ UNCHANGED <<w3c, dir, compact, idx, scca, metrics, run_dates, cur,
                           records, log, results>>

\* Mutant: an outer header whose signature is not "SCCA" is rejected.
ReadHeaderChecksSignature ==
    /\ pc = "header"
    /\ trace' = Append(trace, Event("header", Seek(fh, 0)))
    /\ IF \/ ~StructFits(PREFETCH_HEADER, Seek(fh, 0))
          \/ ReadStruct(PREFETCH_HEADER, Seek(fh, 0))["signature"] # <<83, 67, 67, 65>>
       THEN Caught
       ELSE /\ fh' = AfterRead(Seek(fh, 0), SizeOf(PREFETCH_HEADER))
            /\ scca' = [scca EXCEPT !.fh = fh.id,
                                    !.header = Some(ReadStruct(PREFETCH_HEADER, Seek(fh, 0)))]
            /\ pc' = "identify"
            /\ UNCHANGED <<w3c, dir, compact, idx, metrics, run_dates, cur, records,
                           log, results>>

\* self.fh = fh; self.fh.seek(0); self.header = PREFETCH_HEADER(self.fh)
ReadHeader ==
    /\ pc = "header"
    /\ trace' = Append(trace, Event("header", Seek(fh, 0)))
    /\ IF ~StructFits(PREFETCH_HEADER, Seek(fh, 0))
       THEN Caught
       ELSE /\ fh' = AfterRead(Seek(fh, 0), SizeOf(PREFETCH_HEADER))
            /\ scca' = [scca EXCEPT !.fh = fh.id,
                                    !.header = Some(ReadStruct(PREFETCH_HEADER, Seek(fh, 0)))]
            /\ pc' = "identify"
            /\ UNCHANGED <<w3c, dir, compact, idx, metrics, run_dates, cur, records,
                           log, results>>

\* self.version = self.identify(); volumes, metrics and fn are set to None.
identify ==
    /\ pc = "identify"
    /\ trace' = trace
    /\ IF U32(Header(scca)["version"]) \in DOMAIN prefetch_version_structs
       THEN /\ fh' = Seek(fh, 0)
            /\ scca' = [scca EXCEPT !.version = Some(U32(Header(scca)["version"]))]
            /\ pc' = "parse"
            /\ UNCHANGED <<w3c, dir, compact, idx, metrics, run_dates, cur, records,
                           log, results>>
       ELSE Caught

\* parse(): the file information block, then parse_metrics up to its loop.
parse ==
    /\ pc = "parse"
    /\ LET file_info_header == prefetch_version_structs[scca.version.v][1]
           at == Seek(fh, FileInfoOffset)
       IN  /\ trace' = Append(trace, Event("fileinfo", at))
           /\ IF ~StructFits(file_info_header, at)
              THEN Caught
              ELSE LET fn == ReadStruct(file_info_header, at)
                   IN  /\ scca' = [scca EXCEPT !.fn = Some(fn)]
                       /\ metrics' = << >>
                       /\ fh' = Seek(at, U32(fn["metrics_array_offset"]))
                       /\ pc' = "metrics"
                       /\ UNCHANGED <<w3c, dir, compact, idx, run_dates, cur, records,
                                      log, results>>

\* Mutant: the loop stops at the end of the stream instead of raising, and
\* parse_metrics returns the entries read so far.
parse_metrics_stop_at_eof ==
    /\ pc = "metrics"
    /\ Len(metrics) < U32(Fn(scca)["number_of_file_metrics_entries"])
    /\ LET metric_array_struct == prefetch_version_structs[scca.version.v][2]
       IN  IF ~StructFits(metric_array_struct, fh)
           THEN /\ trace' = Append(trace, Event("entry", fh))
                /\ scca' = [scca EXCEPT !.metrics = Some(metrics)]
                /\ results' = Append(results, [status |-> "decoded", obj |-> scca'])
                /\ metrics' = << >>
                /\ pc' = "project"
                /\ UNCHANGED <<w3c, dir, compact, idx, fh, run_dates, cur, records, log>>
           ELSE LET entry == ReadStruct(metric_array_struct, fh)
                    after == AfterRead(fh, SizeOf(metric_array_struct))
                    off == U32(Fn(scca)["filename_strings_offset"])
                           + U32(entry["filename_string_offset"])
                    size == U32(entry["filename_string_number_of_characters"])
                    got == read_filename(after, off, size)
                    name == DecodeUtf16Strict(got.data)
                IN  /\ trace' = trace \o <<Event("entry", fh),
                                           Event("filename", Seek(after, off))>>
                    /\ IF ~name.ok
                       THEN Caught
                       ELSE /\ metrics' = Append(metrics, name.s)
                            /\ fh' = got.fh
                            /\ UNCHANGED <<w3c, dir, compact, idx, pc, scca, run_dates,
                                           cur, records, log, results>>

\* One iteration of parse_metrics' loop: the entry, its filename, the decode.
parse_metrics ==
    /\ pc = "metrics"
    /\ Len(metrics) < U32(Fn(scca)["number_of_file_metrics_entries"])
    /\ LET metric_array_struct == prefetch_version_structs[scca.version.v][2]
       IN  IF ~StructFits(metric_array_struct, fh)
           THEN /\ trace' = Append(trace, Event("entry", fh))
                /\ Caught
           ELSE LET entry == ReadStruct(metric_array_struct, fh)
                    after == AfterRead(fh, SizeOf(metric_array_struct))
                    off == U32(Fn(scca)["filename_strings_offset"])
                           + U32(entry["filename_string_offset"])
                    size == U32(entry["filename_string_number_of_characters"])
                    got == read_filename(after, off, size)
                    name == DecodeUtf16Strict(got.data)
                IN  /\ trace' = trace \o <<Event("entry", fh),
                                           Event("filename", Seek(after, off))>>
                    /\ IF ~name.ok
                       THEN Caught
                       ELSE /\ metrics' = Append(metrics, name.s)
                            /\ fh' = got.fh
                            /\ UNCHANGED <<w3c, dir, compact, idx, pc, scca, run_dates,
                                           cur, records, log, results>>

\* parse_metrics returns; the constructor returns the object to prefetch().
ParseMetricsDone ==
    /\ pc = "metrics"
    /\ Len(metrics) >= U32(Fn(scca)["number_of_file_metrics_entries"])
    /\ scca' = [scca EXCEPT !.metrics = Some(metrics)]
    /\ results' = Append(results, [status |-> "decoded", obj |-> scca'])
    /\ metrics' = << >>
    /\ pc' = "project"
    /\ UNCHANGED <<w3c, dir, compact, idx, fh, run_dates, cur, records, log, trace>>

\* Mutant: the executable name is decoded strictly, and is empty when its
\* bytes are not valid UTF-16.
FilenameStrict == FsPath(BeforeNul(DecodeUtf16Strict(Header(scca)["name"]).s))

\* filename and entry_name of the records of the current file.
Filename == FsPath(BeforeNul(DecodeUtf16Ignore(Header(scca)["name"])))

\* Mutant: previousruns is left empty.
CompactPrefetchRecordNoPrevious ==
    [type |-> "compact",
     ts |-> latest_timestamp(scca),
     filename |-> Filename,
     prefetch |-> FsPath(EntryName(idx)),
     linkedfiles |-> [k \in DOMAIN scca.metrics.v |-> FsPath(scca.metrics.v[k])],
     runcount |-> U32(Fn(scca)["run_count"]),
     previousruns |-> << >>]

\* Mutant: linkedfiles holds the first referenced file only.
CompactPrefetchRecordFirstFile ==
    [type |-> "compact",
     ts |-> latest_timestamp(scca),
     filename |-> Filename,
     prefetch |-> FsPath(EntryName(idx)),
     linkedfiles |-> IF scca.metrics.v = << >> THEN << >>
                     ELSE <<FsPath(scca.metrics.v[1])>>,
     runcount |-> U32(Fn(scca)["run_count"]),
     previousruns |-> previous_timestamps(scca)]

CompactPrefetchRecord ==
    [type |-> "compact",
     ts |-> latest_timestamp(scca),
     filename |-> Filename,
     prefetch |-> FsPath(EntryName(idx)),
     linkedfiles |-> [k \in DOMAIN scca.metrics.v |-> FsPath(scca.metrics.v[k])],
     runcount |-> U32(Fn(scca)["run_count"]),
     previousruns |-> previous_timestamps(scca)]

PrefetchRecord(linked_file, date) ==
    [type |-> "expanded",
     ts |-> date,
     filename |-> Filename,
     prefetch |-> FsPath(EntryName(idx)),
     linkedfile |-> FsPath(linked_file),
     runcount |-> U32(Fn(scca)["run_count"])]

\* The generator is left by an exception no handler catches.
Raised ==
    /\ pc' = "raised"
    /\ UNCHANGED <<w3c, dir, compact, idx, fh, scca, metrics, run_dates, cur, records,
                   log, trace, results>>

\* compact: one record for the file.
YieldCompact ==
    /\ pc = "project"
    /\ compact
    /\ IF LatestRaises(scca) \/ PreviousRaises(scca)
       THEN Raised
       ELSE /\ records' = Append(records, CompactPrefetchRecord)
            /\ idx' = idx + 1
            /\ pc' = "iter"
            /\ UNCHANGED <<w3c, dir, compact, fh, scca, metrics, run_dates, cur, log,
                           trace, results>>

\* not compact: run_dates = [latest_timestamp, *previous_timestamps]
BuildRunDates ==
    /\ pc = "project"
    /\ ~compact
    /\ IF LatestRaises(scca) \/ PreviousRaises(scca)
       THEN Raised
       ELSE /\ run_dates' = RunDates(scca)
            /\ cur' = <<1, 1>>
            /\ IF scca.metrics.v = << >>
               THEN idx' = idx + 1 /\ pc' = "iter"
               ELSE idx' = idx /\ pc' = "yield"
            /\ UNCHANGED <<w3c, dir, compact, fh, scca, metrics, records, log, trace,
                           results>>

\* Mutant: the generator moves on to the next entry after the first record of
\* a file.
YieldExpandedStopsEarly ==
    /\ pc = "yield"
    /\ records' = Append(records,
                         PrefetchRecord(scca.metrics.v[cur[1]], run_dates[cur[2]]))
    /\ cur' = <<1, 1>> /\ idx' = idx + 1 /\ pc' = "iter"
    /\ UNCHANGED <<w3c, dir, compact, fh, scca, metrics, run_dates, log, trace, results>>

\* Mutant: the loop over run_dates is the outer one.
YieldExpandedDateMajor ==
    /\ pc = "yield"
    /\ records' = Append(records,
                         PrefetchRecord(scca.metrics.v[cur[1]], run_dates[cur[2]]))
    /\ IF cur[1] < Len(scca.metrics.v)
       THEN cur' = <<cur[1] + 1, cur[2]>> /\ idx' = idx /\ pc' = pc
       ELSE IF cur[2] < Len(run_dates)
       THEN cur' = <<1, cur[2] + 1>> /\ idx' = idx /\ pc' = pc
       ELSE cur' = <<1, 1>> /\ idx' = idx + 1 /\ pc' = "iter"
    /\ UNCHANGED <<w3c, dir, compact, fh, scca, metrics, run_dates, log, trace, results>>

\* One yield of the nested loops over scca.metrics and run_dates.
YieldExpanded ==
    /\ pc = "yield"
    /\ records' = Append(records,
                         PrefetchRecord(scca.metrics.v[cur[1]], run_dates[cur[2]]))
    /\ IF cur[2] < Len(run_dates)
       THEN cur' = <<cur[1], cur[2] + 1>> /\ idx' = idx /\ pc' = pc
       ELSE IF cur[1] < Len(scca.metrics.v)
       THEN cur' = <<cur[1] + 1, 1>> /\ idx' = idx /\ pc' = pc
       ELSE cur' = <<1, 1>> /\ idx' = idx + 1 /\ pc' = "iter"
    /\ UNCHANGED <<w3c, dir, compact, fh, scca, metrics, run_dates, log, trace, results>>

Next ==
    \/ StopIteration
    \/ SkipEntry
    \/ OpenEntry
    \/ DetectEnvelope
    \/ DecompressEnvelope
    \/ ReadHeader
    \/ identify
    \/ parse
    \/ parse_metrics
    \/ ParseMetricsDone
    \/ YieldCompact
    \/ BuildRunDates
    \/ YieldExpanded

\* prefetch() over a directory of the batch corpus.
Spec == Init /\ [][Next]_vars

\* prefetch() over a directory of one file, any file of the corpus.
SpecDecode == InitDecode /\ [][Next]_vars


\* ------------------------------------------------------------------ claims

\* The records yielded for the entry at directory position i.
RecordsOf(i) ==
    LET Of(r) == r.prefetch = FsPath(EntryName(i))
    IN  SelectSeq(records, Of)

\* The generator has gone past directory position i.
Passed(i) == i \in 1..Len(dir) /\ i < idx

\* Positions in the trace of the events of one kind.
EventsOf(op) == {n \in DOMAIN trace : trace[n].op = op}

\* Files that are valid by construction, and the meaning they encode.
IsValid(i) == Entry(i).kind \in {"valid", "wrapped"}
Meaning(i) == Samples[Entry(i).sample]

Warned(i) == \E n \in DOMAIN log : log[n] = i

\* C1: whenever the outer header that was read carries a version other than
\* 17, 23, 30, 31, construction fails: no version, file information block or
\* metrics list is ever set on the object, no file information block, metrics
\* entry or filename is read, the failure is logged and no record is emitted
\* for the file.
C1_UnsupportedVersionFails ==
    (scca.header.some /\ U32(Header(scca)["version"]) \notin {17, 23, 30, 31}) =>
        /\ ~scca.version.some /\ ~scca.fn.some /\ ~scca.metrics.some
        /\ EventsOf("fileinfo") \cup EventsOf("entry") \cup EventsOf("filename") = {}
        /\ RecordsOf(scca.of) = << >>
        /\ pc \in {"identify", "iter", "done"}
        /\ pc # "identify" =>
              /\ scca.of <= Len(results)
              /\ results[scca.of].status = "failed"
              /\ Warned(scca.of)

\* C1 witness: a decompressed buffer with version 26 has been rejected.
C1_Witness ==
    /\ scca.header.some
    /\ U32(Header(scca)["version"]) = 26
    /\ scca.fh = "decomp"
    /\ pc = "iter"
    /\ Warned(scca.of)

\* C2 (as claimed): no file makes the generator stop, and when the listing is
\* exhausted every valid file has its complete record set (one compact
\* record, or names x run timestamps expanded records).
C2_BatchIsolation ==
    /\ pc # "raised"
    /\ \A i \in 1..Len(dir) :
          (pc = "done" /\ IsValid(i)) =>
              Len(RecordsOf(i)) =
                  IF compact THEN 1
                  ELSE Len(Meaning(i).names) * (1 + Len(Meaning(i).prevUs))

\* The bytes of the file the trace is about.
TracedData == Entry(scca.of).data

\* The constructor is past the envelope stage and its read of the outer
\* header for the traced file (or has failed before).
Routed == scca.of > 0 /\ pc \notin {"detect", "decompress", "header"}

\* What C3 says of a file whose first four bytes are "MAM\x04": one
\* decompression, of the original stream positioned at 8, before any read of
\* the outer header, which is then read from the decompressed stream.
RoutedThroughDecompression ==
    /\ Cardinality(EventsOf("decompress")) = 1
    /\ \A n \in EventsOf("decompress") :
          /\ trace[n].id = "orig" /\ trace[n].at = 8
          /\ \A m \in EventsOf("header") : n < m /\ trace[m].id = "decomp"

\* What C3 says of any other file: no decompression, the outer header read at
\* offset 0 of the original stream.
ReadRaw ==
    /\ EventsOf("decompress") = {}
    /\ EventsOf("header") # {}
    /\ \A m \in EventsOf("header") : trace[m].id = "orig" /\ trace[m].at = 0

\* C3 (as claimed): routing is decided by the first four bytes alone.
C3_RoutingByFirstFourBytes ==
    Routed =>
        IF Slice(TracedData, 0, 4) = <<77, 65, 77, 4>>
        THEN RoutedThroughDecompression
        ELSE ReadRaw

\* C3 (amended): for a file of at least 8 bytes routing is decided by the
\* first four bytes; a shorter file fails on the detect header, is never
\* decompressed and its outer header is never read.
C3_EnvelopeRouting ==
    Routed =>
        IF Len(TracedData) < 8
        THEN EventsOf("decompress") = {} /\ EventsOf("header") = {}
        ELSE IF Slice(TracedData, 0, 4) = <<77, 65, 77, 4>>
        THEN RoutedThroughDecompression
        ELSE ReadRaw

\* C3 witness: an envelope was decompressed and its outer header then parsed.
C3_Witness ==
    /\ Routed
    /\ Slice(TracedData, 0, 4) = <<77, 65, 77, 4>>
    /\ EventsOf("decompress") # {}
    /\ EventsOf("header") # {}
    /\ pc = "project"


\* The buffer the structured decode works on: the payload of a well-formed
\* envelope, decompressed, or the file itself.
IsEnvelope(data) ==
    /\ Len(data) >= 8
    /\ Slice(data, 0, 4) = <<77, 65, 77, 4>>
    /\ RleValid(Slice(data, 8, Len(data)))

DecodeBuffer(data) ==
    IF IsEnvelope(data) THEN RleDecode(Slice(data, 8, Len(data))) ELSE data

\* The decode buffers of the files a..b of the corpus, as a sequence.
RECURSIVE DecodeBuffers(_, _)
DecodeBuffers(a, b) ==
    IF a > b THEN << >>
    ELSE IF a = b THEN <<DecodeBuffer(Corpus[a].data)>>
    ELSE DecodeBuffers(a, (a + b) \div 2) \o DecodeBuffers((a + b) \div 2 + 1, b)

OuterBuffers == DecodeBuffers(1, Len(Corpus))

OuterBuffer(i) == OuterBuffers[dir[i]]

\* The entry at position j is an envelope whose decompression yields the
\* bytes of the entry at position i.
EnvelopeOf(j, i) ==
    IsEnvelope(Entry(j).data) /\ OuterBuffer(j) = Entry(i).data

\* What a decoded object exposes.
View(obj) ==
    [name |-> BeforeNul(DecodeUtf16Ignore(Header(obj)["name"])),
     version |-> obj.version.v,
     runcount |-> U32(Fn(obj)["run_count"]),
     latest |-> latest_timestamp(obj),
     previous |-> previous_timestamps(obj),
     files |-> obj.metrics.v]

\* The records of an entry without the name of the entry.
Anonymous(i) ==
    [n \in DOMAIN RecordsOf(i) |-> [RecordsOf(i)[n] EXCEPT !.prefetch = FsPath(<< >>)]]

\* C4: when both a buffer B and an envelope E of B have been gone past
\* (neither skipped for its name), E ended as B did; if B decoded, E decoded too, from the decompressed
\* stream, to the same name, version, run count, latest timestamp, previous
\* timestamps and referenced files, and to the same records.
C4_EnvelopeTransparency ==
    \A i, j \in 1..Len(dir) :
        (/\ Passed(i) /\ Passed(j) /\ EnvelopeOf(j, i)
         /\ results[i].status # "skipped" /\ results[j].status # "skipped") =>
            /\ results[j].status = results[i].status
            /\ Entry(i).kind = "valid" => results[i].status = "decoded"
            /\ results[i].status = "decoded" =>
                  /\ results[j].obj.fh = "decomp"
                  /\ View(results[j].obj) = View(results[i].obj)
                  /\ Anonymous(j) = Anonymous(i)

\* C4 witness: a valid buffer and its envelope were both decoded and emitted.
C4_Witness ==
    \E i, j \in 1..Len(dir) :
        /\ pc = "done"
        /\ EnvelopeOf(j, i)
        /\ Entry(i).kind = "valid"
        /\ results[j].status = "decoded"
        /\ RecordsOf(j) # << >>

\* The directory position a record was yielded for.
PositionOf(r) == CHOOSE i \in 1..Len(dir) : r.prefetch = FsPath(EntryName(i))

\* The previous-run slots of a buffer, by its version field: 2 slots for
\* version 23 and 7 for versions 30 and 31, 8 bytes each from offset 136.
SlotCount(buf) ==
    IF U32(Slice(buf, 0, 4)) = 23 THEN 2
    ELSE IF U32(Slice(buf, 0, 4)) \in {30, 31} THEN 7
    ELSE 0

ExpectedPrevious(buf) ==
    LET slots == [k \in 1..SlotCount(buf) |-> Slice(buf, 128 + 8 * k, 136 + 8 * k)]
        used == SelectSeq(slots, NonZero)
    IN  [k \in DOMAIN used |-> wintimestamp(used[k])]

\* What C5 says of a previous-timestamps list produced for position i.
PreviousAsClaimed(list, i) ==
    /\ list = ExpectedPrevious(OuterBuffer(i))
    /\ Len(list) <= SlotCount(OuterBuffer(i))
    /\ \A k \in DOMAIN list : list[k] # Zeros(8)
    /\ U32(Slice(OuterBuffer(i), 0, 4)) = 17 => list = << >>
    /\ IsValid(i) => list = Meaning(i).prevUs

\* C5: every previous-timestamps list the plugin obtains (previousruns of a
\* compact record, the tail of run_dates) is the non-zero slots of the
\* buffer, converted, in slot order: at most 2 for version 23, at most 7 for
\* versions 30 and 31, never the conversion of a zero slot, and empty for
\* version 17.
C5_PreviousTimestamps ==
    /\ \A n \in DOMAIN records :
          records[n].type = "compact" =>
              PreviousAsClaimed(records[n].previousruns, PositionOf(records[n]))
    /\ pc = "yield" => PreviousAsClaimed(Tail(run_dates), idx)

\* C5 witness: a version 31 file whose slot 0 is zero and whose slots 1 and 6
\* are not gave two previous timestamps, in slot order.
C5_Witness ==
    \E n \in DOMAIN records :
        /\ records[n].type = "compact"
        /\ U32(Slice(OuterBuffer(PositionOf(records[n])), 0, 4)) = 31
        /\ records[n].previousruns = <<Micro3, Micro1>>

\* How often the pair (name, date) occurs among the expanded records rs.
Occurrences(rs, name, date) ==
    Cardinality({n \in DOMAIN rs : rs[n].linkedfile = FsPath(name) /\ rs[n].ts = date})

\* How often it occurs in the cross product of names and dates.
Pairs(names, dates, name, date) ==
    Cardinality({k \in DOMAIN names : names[k] = name})
    * Cardinality({m \in DOMAIN dates : dates[m] = date})

\* Expanded records rs are names x dates, each with the given common fields.
CrossProduct(rs, names, dates, exe, runs) ==
    /\ Len(rs) = Len(names) * Len(dates)
    /\ \A k \in DOMAIN names : \A m \in DOMAIN dates :
          Occurrences(rs, names[k], dates[m]) = Pairs(names, dates, names[k], dates[m])
    /\ \A n \in DOMAIN rs :
          /\ rs[n].type = "expanded"
          /\ rs[n].runcount = runs
          /\ rs[n].filename = FsPath(exe)

\* The file at position i was decoded and its records were yielded.
Emitted(i) ==
    /\ Passed(i)
    /\ results[i].status = "decoded"
    /\ ~(pc = "raised" /\ idx = i)

\* C6: with compact = False, a decoded file that has been gone past has
\* yielded exactly N x M records, one per (referenced file, run timestamp)
\* pair, duplicates counted, all with the same run count, executable name and
\* entry name; for a valid file N, M and the fields are those it encodes.
C6_ExpandedShape ==
    \A i \in 1..Len(dir) :
        (~compact /\ Emitted(i)) =>
            /\ CrossProduct(RecordsOf(i), results[i].obj.metrics.v,
                            RunDates(results[i].obj),
                            View(results[i].obj).name, View(results[i].obj).runcount)
            /\ IsValid(i) =>
                  CrossProduct(RecordsOf(i), Meaning(i).names,
                               <<Meaning(i).lastUs>> \o Meaning(i).prevUs,
                               Meaning(i).exe, Meaning(i).runs)

\* C6 witness: a file of 2 names and 3 run timestamps yielded 6 records.
C6_Witness ==
    \E i \in 1..Len(dir) :
        /\ ~compact /\ Emitted(i) /\ IsValid(i)
        /\ Len(Meaning(i).names) = 2
        /\ Len(Meaning(i).prevUs) = 2
        /\ Len(RecordsOf(i)) = 6

\* The compact record a valid file encodes.
CompactMeaning(i) ==
    [type |-> "compact",
     ts |-> Meaning(i).lastUs,
     filename |-> FsPath(Meaning(i).exe),
     prefetch |-> FsPath(EntryName(i)),
     linkedfiles |-> [k \in DOMAIN Meaning(i).names |-> FsPath(Meaning(i).names[k])],
     runcount |-> Meaning(i).runs,
     previousruns |-> Meaning(i).prevUs]

\* C7: with compact = True, a decoded file that has been gone past has
\* yielded exactly one record: linkedfiles is the referenced-file list in
\* array order, ts the latest timestamp, previousruns the previous-timestamps
\* list; for a valid file it is the record the file encodes.
C7_CompactRecord ==
    \A i \in 1..Len(dir) :
        (compact /\ Emitted(i)) =>
            /\ Len(RecordsOf(i)) = 1
            /\ RecordsOf(i)[1].type = "compact"
            /\ RecordsOf(i)[1].linkedfiles =
                  [k \in DOMAIN results[i].obj.metrics.v |->
                      FsPath(results[i].obj.metrics.v[k])]
            /\ RecordsOf(i)[1].ts = View(results[i].obj).latest
            /\ RecordsOf(i)[1].previousruns = View(results[i].obj).previous
            /\ IsValid(i) => RecordsOf(i) = <<CompactMeaning(i)>>

\* C7 witness: the compact record of a file with a duplicated name.
C7_Witness ==
    \E i \in 1..Len(dir) :
        /\ compact /\ Emitted(i) /\ IsValid(i)
        /\ Meaning(i).names = <<NameA, NameA>>
        /\ RecordsOf(i) = <<CompactMeaning(i)>>

\* C8 (as claimed): the compact output of a valid file with N referenced
\* files and M run timestamps has N entries, each referencing M timestamps.
C8_CompactHasNEntries ==
    \A i \in 1..Len(dir) :
        (compact /\ Emitted(i) /\ IsValid(i)) =>
            /\ Len(RecordsOf(i)) = Len(Meaning(i).names)
            /\ \A n \in DOMAIN RecordsOf(i) :
                  1 + Len(RecordsOf(i)[n].previousruns) = 1 + Len(Meaning(i).prevUs)

\* C8 (amended): the compact output of a valid file with N referenced files
\* and M run timestamps has one entry, which references the N files and the
\* M timestamps.
C8_CompactHasOneEntry ==
    \A i \in 1..Len(dir) :
        (compact /\ Emitted(i) /\ IsValid(i)) =>
            /\ Len(RecordsOf(i)) = 1
            /\ \A n \in DOMAIN RecordsOf(i) :
                  /\ Len(RecordsOf(i)[n].linkedfiles) = Len(Meaning(i).names)
                  /\ 1 + Len(RecordsOf(i)[n].previousruns) = 1 + Len(Meaning(i).prevUs)

\* C8 witness: one compact entry for a file without referenced files.
C8_Witness ==
    \E i \in 1..Len(dir) :
        /\ compact /\ Emitted(i) /\ IsValid(i)
        /\ Meaning(i).names = << >>
        /\ Len(RecordsOf(i)) = 1


\* Fields of a buffer at the offsets of the format: the metrics array offset
\* and count and the strings offset in the file information block at 84, and
\* per metrics entry (20 bytes for version 17, 32 otherwise) the offset and
\* the character count of its filename.
MetricsOffsetIn(buf) == U32(Slice(buf, 84, 88))
MetricsCountIn(buf) == U32(Slice(buf, 88, 92))
StringsOffsetIn(buf) == U32(Slice(buf, 100, 104))
EntrySizeIn(buf) == IF U32(Slice(buf, 0, 4)) = 17 THEN 20 ELSE 32
NameFieldIn(buf) == IF U32(Slice(buf, 0, 4)) = 17 THEN 8 ELSE 12
EntryIn(buf, k) == MetricsOffsetIn(buf) + (k - 1) * EntrySizeIn(buf) + NameFieldIn(buf)
NameOffsetIn(buf, k) ==
    StringsOffsetIn(buf) + U32(Slice(buf, EntryIn(buf, k), EntryIn(buf, k) + 4))
NameCharsIn(buf, k) == U32(Slice(buf, EntryIn(buf, k) + 4, EntryIn(buf, k) + 8))

\* The bytes of the k-th filename: NameCharsIn code units from NameOffsetIn.
NameBytesIn(buf, k) ==
    Slice(buf, NameOffsetIn(buf, k), NameOffsetIn(buf, k) + 2 * NameCharsIn(buf, k))

\* C9: a decoded object's referenced-files list has
\* number_of_file_metrics_entries elements and its K-th element is the
\* UTF-16 string read at filename_strings_offset + the K-th entry's
\* filename_string_offset for filename_string_number_of_characters code units
\* (all of them when they lie inside the buffer); a valid file decodes to the
\* names it encodes, duplicates kept, in array order.
C9_FilenameResolution ==
    \A i \in 1..Len(results) :
        /\ results[i].status = "decoded" =>
              LET buf == OuterBuffer(i)
                  files == results[i].obj.metrics.v
              IN  /\ Len(files) = MetricsCountIn(buf)
                  /\ \A k \in DOMAIN files :
                        /\ DecodeUtf16Strict(NameBytesIn(buf, k)) = [ok |-> TRUE, s |-> files[k]]
                        /\ NameOffsetIn(buf, k) + 2 * NameCharsIn(buf, k) <= Len(buf) =>
                              Len(NameBytesIn(buf, k)) = 2 * NameCharsIn(buf, k)
        /\ (IsValid(i) /\ results[i].status # "skipped") =>
              /\ results[i].status = "decoded"
              /\ results[i].obj.metrics.v = Meaning(i).names

\* C9 witness: a file naming "A.DLL" twice decoded to both, in order.
C9_Witness ==
    \E i \in 1..Len(results) :
        /\ results[i].status = "decoded"
        /\ MetricsCountIn(OuterBuffer(i)) = 2
        /\ results[i].obj.metrics.v = <<NameA, NameA>>

\* The file at position i is a valid file cut before the end of its metrics
\* array, which is not empty.
CutInMetrics(i) ==
    /\ Entry(i).kind = "truncated"
    /\ Meaning(i).names # << >>
    /\ Entry(i).cut < MetricsAt(Meaning(i)) + Len(Meaning(i).names) * Format(Meaning(i).v).entry

\* C10: the decode of a valid buffer cut before the end of its last metrics
\* entry raises (the file is logged and yields no record), and no decoded
\* object has a metrics list shorter than number_of_file_metrics_entries.
C10_TruncatedMetricsFails ==
    \A i \in 1..Len(results) :
        /\ CutInMetrics(i) =>
              /\ results[i].status = "failed"
              /\ Warned(i)
              /\ RecordsOf(i) = << >>
        /\ results[i].status = "decoded" =>
              Len(results[i].obj.metrics.v) >= MetricsCountIn(OuterBuffer(i))

\* C10 witness: a file cut inside its second metrics entry failed there,
\* after the first entry had been read.
C10_Witness ==
    \E i \in 1..Len(results) :
        /\ CutInMetrics(i)
        /\ Entry(i).cut > MetricsAt(Meaning(i)) + Format(Meaning(i).v).entry
        /\ results[i].status = "failed"
        /\ scca.of = i
        /\ Cardinality(EventsOf("entry")) = 2
        /\ Cardinality(EventsOf("filename")) = 1

\* The K-th filename read of a buffer stays inside the buffer.
NameInBounds(buf, k) == NameOffsetIn(buf, k) + 2 * NameCharsIn(buf, k) <= Len(buf)

\* C11 (as claimed): a decode succeeds only if every read step found the
\* bytes it asked for; in particular every filename read, of
\* filename_string_number_of_characters * 2 bytes at filename_strings_offset
\* + filename_string_offset, lies inside the buffer.
C11_OutOfBoundsFatal ==
    \A i \in 1..Len(results) :
        results[i].status = "decoded" =>
            \A k \in 1..MetricsCountIn(OuterBuffer(i)) : NameInBounds(OuterBuffer(i), k)

\* C12: a valid buffer of version 17, 23, 30 or 31, once gone past, has
\* decoded, with the file information block read at offset 84 and each
\* metrics entry at the entry size of its version, to the run count it
\* encodes, to its last_run_time (4 bytes for version 17, 8 otherwise) as the
\* latest timestamp, and to its filename list.
C12_RoundTrip ==
    \A i \in 1..Len(results) :
        (IsValid(i) /\ results[i].status # "skipped") =>
            /\ results[i].status = "decoded"
            /\ results[i].obj.version.v = Meaning(i).v
            /\ View(results[i].obj).runcount = Meaning(i).runs
            /\ Fn(results[i].obj)["last_run_time"] = Meaning(i).last
            /\ Len(Meaning(i).last) = IF Meaning(i).v = 17 THEN 4 ELSE 8
            /\ View(results[i].obj).latest = Meaning(i).lastUs
            /\ View(results[i].obj).files = Meaning(i).names
            /\ scca.of = i =>
                  /\ \A n \in EventsOf("fileinfo") : trace[n].at = 84
                  /\ \A n, m \in EventsOf("entry") :
                        (n < m /\ \A x \in EventsOf("entry") : ~(n < x /\ x < m)) =>
                            trace[m].at - trace[n].at =
                                IF Meaning(i).v = 17 THEN 20 ELSE 32

\* C12 witness: a version 17 file with two names decoded to what it encodes,
\* its two 20-byte entries read one after the other.
C12_Witness ==
    \E i \in 1..Len(results) :
        /\ IsValid(i) /\ results[i].status = "decoded" /\ scca.of = i
        /\ Meaning(i).v = 17
        /\ View(results[i].obj).latest = Micro17
        /\ View(results[i].obj).runcount = 5
        /\ View(results[i].obj).files = <<NameA, NameB>>
        /\ Cardinality(EventsOf("entry")) = 2

\* The number of records that make the complete set of a decoded file: one
\* compact record, or one expanded record per (referenced file, run
\* timestamp) pair.
Complete(i) ==
    IF compact THEN 1
    ELSE Len(results[i].obj.metrics.v) * Len(RunDates(results[i].obj))

\* The generator stands inside the projection of the file at position i.
Emitting(i) == idx = i /\ pc \in {"project", "yield"}

\* C13: in both shapes, a file that was not decoded has no record, and a
\* decoded file whose projection is not under way (it ended, or it raised) has
\* either no record or its complete set: one compact record, or all N x M
\* expanded records.
C13_NoPartialEmission ==
    \A i \in 1..Len(dir) :
        /\ (i > Len(results) \/ results[i].status # "decoded") => RecordsOf(i) = << >>
        /\ (i <= Len(results) /\ results[i].status = "decoded" /\ ~Emitting(i)) =>
              Len(RecordsOf(i)) \in {0, Complete(i)}

\* C13 witness: with compact = False the first file yielded its complete set
\* of several records, and the second, whose timestamps do not convert,
\* yielded none of the records of its referenced files.
C13_Witness ==
    /\ ~compact /\ pc = "raised" /\ idx = 2 /\ Len(results) = 2
    /\ results[1].status = "decoded" /\ results[2].status = "decoded"
    /\ Len(RecordsOf(1)) = Complete(1)
    /\ Complete(1) > 1
    /\ results[2].obj.metrics.v # << >>
    /\ RecordsOf(2) = << >>

\* The bytes start with "MAM\x04" and what follows the 8-byte detect header
\* does not decompress.
BrokenEnvelope(data) ==
    /\ Len(data) >= 8
    /\ Slice(data, 0, 4) = <<77, 65, 77, 4>>
    /\ ~RleValid(Slice(data, 8, Len(data)))

\* C14: once the constructor is past the decompression of a file that starts
\* with "MAM\x04" and does not decompress, construction has failed there: the
\* decompression was attempted once, no outer header was read or set (from
\* the raw bytes or otherwise), the failure was caught and logged, and the
\* file has no record.
C14_DecompressionFailurePropagates ==
    (scca.of > 0 /\ BrokenEnvelope(TracedData) /\ pc \notin {"detect", "decompress"}) =>
        /\ Cardinality(EventsOf("decompress")) = 1
        /\ EventsOf("header") = {}
        /\ ~scca.header.some /\ scca.fh = "none"
        /\ pc \in {"iter", "done"}
        /\ scca.of <= Len(results)
        /\ results[scca.of].status = "failed"
        /\ Warned(scca.of)
        /\ RecordsOf(scca.of) = << >>

\* C14 witness: the decompression of an envelope failed and the file was
\* logged and passed over.
C14_Witness ==
    /\ scca.of = 1 /\ pc = "iter" /\ idx = 2
    /\ BrokenEnvelope(TracedData)
    /\ EventsOf("decompress") # {}
    /\ results[1].status = "failed"

\* The trace positions of the entry reads, in order: how many came before.
EntryRank(n) == Cardinality({m \in EventsOf("entry") : m < n})

\* C15: read_filename leaves the stream where it found it, whatever the
\* offset and the size (offsets at and beyond the end of the buffer
\* included): between two iterations of parse_metrics the stream stands just
\* past the entries read so far, and the K-th metrics entry (K from 0) is read
\* at metrics_array_offset + K * entry size, whatever filename offsets the
\* earlier entries named.
C15_CursorPreservation ==
    /\ pc = "metrics" =>
          /\ fh.pos = MetricsOffsetIn(fh.data) + Len(metrics) * EntrySizeIn(fh.data)
          /\ \A off \in {0, fh.pos, Len(fh.data), Len(fh.data) + 7} :
                \A size \in {0, 1, 40} :
                    read_filename(fh, off, size).fh.pos = fh.pos
    /\ \A n \in EventsOf("entry") :
          trace[n].at = MetricsOffsetIn(fh.data) + EntryRank(n) * EntrySizeIn(fh.data)

\* C15 witness: the first filename was sought at or beyond the end of the
\* buffer, and the second entry was read right after the first one.
C15_Witness ==
    /\ pc = "project"
    /\ \E n \in EventsOf("filename") : \E m \in EventsOf("entry") :
          /\ n < m
          /\ trace[n].at >= Len(fh.data)
          /\ trace[m].at = MetricsOffsetIn(fh.data) + EntrySizeIn(fh.data)

\* Two buffers that are equal outside the signature field of the outer
\* header, bytes 4..7.
DiffersOnlyInSignature(a, b) ==
    /\ Len(a) = Len(b)
    /\ Len(a) >= 8
    /\ \A k \in 1..Len(a) : k \notin 5..8 => a[k] = b[k]

\* C16: two files whose decode buffers differ at most in bytes 4..7 end
\* alike: both fail, or both decode to the same name, version, run count,
\* timestamps and referenced files and yield the same records; and a valid
\* buffer given another signature (zeros, 0xFFFFFFFF, even "MAM\x04") still
\* decodes to what it encodes.
C16_PermissiveSignature ==
    /\ \A i, j \in 1..Len(results) :
          (/\ results[i].status # "skipped" /\ results[j].status # "skipped"
           /\ DiffersOnlyInSignature(OuterBuffer(i), OuterBuffer(j))) =>
              /\ results[i].status = results[j].status
              /\ results[i].status = "decoded" =>
                    /\ View(results[i].obj) = View(results[j].obj)
                    /\ (Passed(i) /\ Passed(j)) => Anonymous(i) = Anonymous(j)
    /\ \A i \in 1..Len(results) :
          (Entry(i).kind = "resigned" /\ results[i].status # "skipped") =>
              /\ results[i].status = "decoded"
              /\ Header(results[i].obj)["signature"] # <<83, 67, 67, 65>>
              /\ View(results[i].obj).files = Meaning(i).names
              /\ View(results[i].obj).runcount = Meaning(i).runs
              /\ View(results[i].obj).latest = Meaning(i).lastUs
              /\ View(results[i].obj).previous = Meaning(i).prevUs
              /\ View(results[i].obj).name = Meaning(i).exe

\* C16 witness: a valid file and the same file with another signature were
\* both decoded and both yielded records.
C16_Witness ==
    \E i, j \in 1..Len(results) :
        /\ pc = "done"
        /\ results[i].status = "decoded" /\ results[j].status = "decoded"
        /\ DiffersOnlyInSignature(OuterBuffer(i), OuterBuffer(j))
        /\ OuterBuffer(i) # OuterBuffer(j)
        /\ RecordsOf(i) # << >> /\ RecordsOf(j) # << >>

\* The executable name of a buffer, decoded leniently: the 60 bytes at offset
\* 16, invalid code units dropped, cut at the first NUL.
LenientName(buf) == BeforeNul(DecodeUtf16Ignore(Slice(buf, 16, 76)))

\* Some metrics entry of the buffer (entries that lie inside it) names bytes
\* that are not valid UTF-16-LE.
HasInvalidName(buf) ==
    /\ Len(buf) >= 120
    /\ MetricsOffsetIn(buf) <= Len(buf)
    /\ \E k \in 1..Len(buf) :
          /\ k <= MetricsCountIn(buf)
          /\ EntryIn(buf, k) + 8 <= Len(buf)
          /\ ~DecodeUtf16Strict(NameBytesIn(buf, k)).ok

\* Two buffers that are equal outside the name field of the outer header,
\* bytes 16..75.
DiffersOnlyInName(a, b) ==
    /\ Len(a) = Len(b)
    /\ Len(a) >= 76
    /\ \A k \in 1..Len(a) : k \notin 17..76 => a[k] = b[k]

\* C17: a file one of whose metrics filenames is not valid UTF-16-LE (an odd
\* number of bytes, an unpaired surrogate) fails, is logged and has no
\* record; the executable name never makes a file fail: two files that differ
\* in the name field only end alike, a name field holding unpaired surrogates
\* decodes, and the name reported is the lenient decoding of the field up to
\* its first NUL.
C17_DecodingAsymmetry ==
    /\ \A i \in 1..Len(results) :
          results[i].status # "skipped" =>
              LET buf == OuterBuffer(i)
                  rs == RecordsOf(i)
              IN  /\ (~BrokenEnvelope(Entry(i).data) /\ HasInvalidName(buf)) =>
                        /\ results[i].status = "failed"
                        /\ Warned(i)
                        /\ rs = << >>
                  /\ results[i].status = "decoded" =>
                        /\ View(results[i].obj).name = LenientName(buf)
                        /\ \A n \in DOMAIN rs :
                              /\ rs[n].filename = FsPath(LenientName(buf))
                              /\ \A c \in DOMAIN rs[n].filename.path :
                                    rs[n].filename.path[c] # 0
                  /\ Entry(i).kind = "badexe" =>
                        /\ results[i].status = "decoded"
                        /\ View(results[i].obj).name = <<81, 82>>
                        /\ View(results[i].obj).files = Meaning(i).names
    /\ \A i, j \in 1..Len(results) :
          (/\ results[i].status # "skipped" /\ results[j].status # "skipped"
           /\ DiffersOnlyInName(OuterBuffer(i), OuterBuffer(j))) =>
              results[i].status = results[j].status

\* C17 witness: a file whose name field holds unpaired surrogates yielded
\* records named "QR", and a file whose first metrics filename starts with an
\* unpaired surrogate failed.
C17_Witness ==
    /\ pc = "done" /\ Len(results) = 2
    /\ Entry(1).kind = "badexe"
    /\ RecordsOf(1) # << >>
    /\ RecordsOf(1)[1].filename = FsPath(<<81, 82>>)
    /\ HasInvalidName(OuterBuffer(2))
    /\ results[2].status = "failed"

\* C18 (as claimed): no Prefetch object that was constructed, from a raw or
\* from a compressed input, refers to the file handle it was given.
C18_NoOriginalHandle ==
    \A i \in 1..Len(results) :
        results[i].status = "decoded" => results[i].obj.fh # "orig"

\* ---------------------------------------------- IIS logs: the W3C format
\* parse_w3c_format_log of
\* src/dissect/target/plugins/apps/webserver/iis.py.  Lines are sequences of
\* bytes, text is sequences of code points.

\* bytes.decode("utf-8", errors="backslashreplace"): ASCII bytes and two-byte
\* sequences decode, any other byte becomes "\xNN" (the log lines of the model
\* hold no three- or four-byte sequence).
HexDigit(n) == IF n < 10 THEN 48 + n ELSE 87 + n

RECURSIVE DecodeUtf8BackslashReplace(_)
DecodeUtf8BackslashReplace(b) ==
    IF b = << >> THEN << >>
    ELSE IF b[1] < 128 THEN <<b[1]>> \o DecodeUtf8BackslashReplace(Tail(b))
    ELSE IF b[1] >= 194 /\ b[1] <= 223 /\ Len(b) >= 2 /\ b[2] >= 128 /\ b[2] <= 191
    THEN <<(b[1] - 192) * 64 + (b[2] - 128)>> \o DecodeUtf8BackslashReplace(Tail(Tail(b)))
    ELSE <<92, 120, HexDigit(b[1] \div 16), HexDigit(b[1] % 16)>>
         \o DecodeUtf8BackslashReplace(Tail(b))

IsSpace(c) == c \in {9, 10, 11, 12, 13, 32}

RECURSIVE LStrip(_)
LStrip(s) == IF s # << >> /\ IsSpace(s[1]) THEN LStrip(Tail(s)) ELSE s

RECURSIVE RStrip(_)
RStrip(s) ==
    IF s # << >> /\ IsSpace(s[Len(s)]) THEN RStrip(SubSeq(s, 1, Len(s) - 1)) ELSE s

\* str.strip()
Strip(s) == RStrip(LStrip(s))

\* str.startswith(p)
StartsWith(s, p) == Len(s) >= Len(p) /\ SubSeq(s, 1, Len(p)) = p

\* The places where sep occurs in s.
Occurs(s, sep) ==
    {i \in 1..Len(s) : i + Len(sep) - 1 <= Len(s) /\ SubSeq(s, i, i + Len(sep) - 1) = sep}

\* s.partition(sep)[2]: what follows the first sep, nothing when sep is absent.
AfterPartition(s, sep) ==
    IF Occurs(s, sep) = {} THEN << >>
    ELSE LET i == CHOOSE i \in Occurs(s, sep) : \A j \in Occurs(s, sep) : i <= j
         IN  SubSeq(s, i + Len(sep), Len(s))

\* The length of the first word of a text that starts with one.
WordLen(s) ==
    IF \A i \in DOMAIN s : ~IsSpace(s[i]) THEN Len(s)
    ELSE (CHOOSE i \in DOMAIN s : IsSpace(s[i]) /\ \A j \in 1..(i - 1) : ~IsSpace(s[j])) - 1

\* str.split(): the words between runs of whitespace.
RECURSIVE Split(_)
Split(s) ==
    LET rest == LStrip(s)
    IN  IF rest = << >> THEN << >>
        ELSE <<SubSeq(rest, 1, WordLen(rest))>>
             \o Split(SubSeq(rest, WordLen(rest) + 1, Len(rest)))

\* "#Fields", "Fields: ", "#", "-", "date", "time"
FieldsMark == <<35, 70, 105, 101, 108, 100, 115>>
FieldsSeparator == <<70, 105, 101, 108, 100, 115, 58, 32>>
CommentMark == <<35>>
Dash == <<45>>
DateField == <<100, 97, 116, 101>>
TimeField == <<116, 105, 109, 101>>
ClientIpField == <<99, 45, 105, 112>>
ServerIpField == <<115, 45, 105, 112>>

\* basic_fields:
\*   c-ip, s-ip, cs-username, s-computername, s-sitename
\*   cs-method, cs-uri-stem, cs-uri-query, cs-bytes, sc-bytes
\*   time-taken, sc-status, sc-win32-status
basic_fields ==
    {
      <<99, 45, 105, 112>>,
      <<115, 45, 105, 112>>,
      <<99, 115, 45, 117, 115, 101, 114, 110, 97, 109, 101>>,
      <<115, 45, 99, 111, 109, 112, 117, 116, 101, 114, 110, 97, 109, 101>>,
      <<115, 45, 115, 105, 116, 101, 110, 97, 109, 101>>,
      <<99, 115, 45, 109, 101, 116, 104, 111, 100>>,
      <<99, 115, 45, 117, 114, 105, 45, 115, 116, 101, 109>>,
      <<99, 115, 45, 117, 114, 105, 45, 113, 117, 101, 114, 121>>,
      <<99, 115, 45, 98, 121, 116, 101, 115>>,
      <<115, 99, 45, 98, 121, 116, 101, 115>>,
      <<116, 105, 109, 101, 45, 116, 97, 107, 101, 110>>,
      <<115, 99, 45, 115, 116, 97, 116, 117, 115>>,
      <<115, 99, 45, 119, 105, 110, 51, 50, 45, 115, 116, 97, 116, 117, 115>>
    }

\* a < b for texts, as sorted() orders them.
RECURSIVE TextLess(_, _)
TextLess(a, b) ==
    IF b = << >> THEN FALSE
    ELSE IF a = << >> THEN TRUE
    ELSE IF a[1] # b[1] THEN a[1] < b[1]
    ELSE TextLess(Tail(a), Tail(b))

\* sorted(S)
RECURSIVE Sorted(_)
Sorted(S) ==
    IF S = {} THEN << >>
    ELSE LET least == CHOOSE x \in S : \A y \in S \ {x} : TextLess(x, y)
         IN  <<least>> \o Sorted(S \ {least})

IsLetter(c) == (c >= 65 /\ c <= 90) \/ (c >= 97 /\ c <= 122)
IsDigit(c) == c >= 48 /\ c <= 57

\* flow.record's RE_VALID_FIELD_NAME: a letter (after an optional "_"), then
\* letters, digits and "_".
ValidFieldName(f) ==
    LET body == IF f # << >> /\ f[1] = 95 THEN Tail(f) ELSE f
    IN  /\ body # << >>
        /\ IsLetter(body[1])
        /\ \A i \in DOMAIN body : IsLetter(body[i]) \/ IsDigit(body[i]) \/ body[i] = 95

RECURSIVE StripUnderscores(_)
StripUnderscores(s) ==
    IF s # << >> /\ s[1] = 95 THEN StripUnderscores(Tail(s))
    ELSE IF s # << >> /\ s[Len(s)] = 95 THEN StripUnderscores(SubSeq(s, 1, Len(s) - 1))
    ELSE s

\* normalise_field_name(field)
normalise_field_name(field) ==
    IF ValidFieldName(field) THEN field
    ELSE Lower(StripUnderscores(
             [i \in DOMAIN field |->
                 IF IsLetter(field[i]) \/ IsDigit(field[i]) THEN field[i] ELSE 95]))

\* The lines a log of the model is made of, each with its line feed:
\*   #Fields: cs-method x
\*   #Fields:
\*   #Date: 1
\*   (blank)
\*   GET 200
\*   GET
\*   - \xff (a dash and an invalid byte)
LogLines ==
    {
      <<35, 70, 105, 101, 108, 100, 115, 58, 32, 99, 115, 45, 109, 101, 116, 104, 111, 100, 32, 120, 10>>,
      <<35, 70, 105, 101, 108, 100, 115, 58, 10>>,
      <<35, 68, 97, 116, 101, 58, 32, 49, 10>>,
      <<32, 10>>,
      <<71, 69, 84, 32, 50, 48, 48, 10>>,
      <<71, 69, 84, 10>>,
      <<45, 32, 255, 10>>
    }

\* The longest log.
MaxLines == 3

\* The text of the line the loop stands at.
LineText(w) == Strip(DecodeUtf8BackslashReplace(w.lines[w.at]))

\* replace_dash_with_none(dict(zip(fields, values))).get(k): the last value
\* zipped with k, None for "-" and for a key that is absent.
RawGet(fields, values, k) ==
    LET at == {i \in DOMAIN fields : fields[i] = k}
    IN  IF at = {} THEN None
        ELSE LET last == CHOOSE i \in at : \A j \in at : j <= i
             IN  IF values[last] = Dash THEN None ELSE Some(values[last])

\* TargetRecordDescriptor rejects field names that are not valid or that
\* occur twice.
DescriptorRaises(extra_fields) ==
    \/ \E i \in DOMAIN extra_fields : ~ValidFieldName(normalise_field_name(extra_fields[i]))
    \/ \E i, j \in DOMAIN extra_fields :
          i # j /\ normalise_field_name(extra_fields[i]) = normalise_field_name(extra_fields[j])

\* _create_extended_descriptor(...): the names of the extra fields.
ExtendedDescriptor(extra_fields) ==
    [i \in DOMAIN extra_fields |-> normalise_field_name(extra_fields[i])]

\* strptime on the date and time, and the conversion of the address fields
\* by the record, raise on malformed text: when one of them has a value the
\* line may end in an exception.
MayRaise(fields, values) ==
    \/ RawGet(fields, values, DateField).some /\ RawGet(fields, values, TimeField).some
    \/ RawGet(fields, values, ClientIpField).some
    \/ RawGet(fields, values, ServerIpField).some

\* record_descriptor(ts=..., ..., format="W3C", ...)
W3CRecord(w, fields, values) ==
    [line |-> w.at,
     format |-> "W3C",
     descriptor |-> w.record_descriptor.v,
     ts |-> IF RawGet(fields, values, DateField).some /\ RawGet(fields, values, TimeField).some
            THEN Some(<<RawGet(fields, values, DateField).v,
                        RawGet(fields, values, TimeField).v>>)
            ELSE None,
     basic |-> [k \in basic_fields |-> RawGet(fields, values, k)],
     extra |-> [i \in DOMAIN w.extra_fields |-> RawGet(fields, values, w.extra_fields[i])]]

Continue(w) == [w EXCEPT !.at = w.at + 1]

Warn(w, why) == [w EXCEPT !.warnings = Append(w.warnings, [line |-> w.at, why |-> why])]

\* A "#Fields" line: fields, extra_fields and record_descriptor are set.
FieldsLine(w, line) ==
    LET fields == Split(AfterPartition(line, FieldsSeparator))
        extra_fields == Sorted({fields[i] : i \in DOMAIN fields} \ basic_fields)
    IN  IF DescriptorRaises(extra_fields)
        THEN [w EXCEPT !.pc = "raised"]
        ELSE Continue([w EXCEPT !.fields = fields,
                                !.extra_fields = extra_fields,
                                !.record_descriptor = Some(ExtendedDescriptor(extra_fields))])

\* A line of values: the count test, the test of record_descriptor (which
\* warns and goes on), and the yield; ok tells whether the conversions of the
\* record succeed.
ValuesLine(w, line, ok) ==
    LET values == Split(line)
    IN  IF Len(values) # Len(w.fields)
        THEN Continue(Warn(w, "values do not match fields"))
        ELSE LET warned == IF ~w.record_descriptor.some
                           THEN Warn(w, "fields should come before the values")
                           ELSE w
             IN  IF ~ok \/ ~w.record_descriptor.some
                 THEN [warned EXCEPT !.pc = "raised"]
                 ELSE Continue([warned EXCEPT !.records =
                                   Append(w.records, W3CRecord(w, w.fields, values))])

\* One iteration of the loop over the lines of the log.
parse_w3c_format_log ==
    /\ w3c.pc = "loop"
    /\ w3c.at <= Len(w3c.lines)
    /\ LET line == LineText(w3c)
       IN  IF StartsWith(line, FieldsMark) THEN w3c' = FieldsLine(w3c, line)
           ELSE IF StartsWith(line, CommentMark) THEN w3c' = Continue(w3c)
           ELSE \E ok \in IF MayRaise(w3c.fields, Split(line)) /\ Len(Split(line)) = Len(w3c.fields)
                          THEN BOOLEAN ELSE {TRUE} :
                    w3c' = ValuesLine(w3c, line, ok)
    /\ UNCHANGED prefetch_vars

\* The lines are exhausted: the generator returns.
parse_w3c_format_log_return ==
    /\ w3c.pc = "loop"
    /\ w3c.at > Len(w3c.lines)
    /\ w3c' = [w3c EXCEPT !.pc = "done"]
    /\ UNCHANGED prefetch_vars

\* parse_w3c_format_log over a log of up to MaxLines lines.
InitW3C ==
    /\ w3c \in {[NoLog EXCEPT !.lines = l, !.pc = "loop"] : l \in SeqsUpTo(LogLines, MaxLines)}
    /\ dir = << >>
    /\ InitRest
    /\ compact = FALSE

NextW3C ==
    \/ parse_w3c_format_log
    \/ parse_w3c_format_log_return

SpecW3C == InitW3C /\ [][NextW3C]_vars

\* The line at position n is a "#Fields" line, a comment line.
IsFieldsLine(n) == StartsWith(Strip(DecodeUtf8BackslashReplace(w3c.lines[n])), FieldsMark)
IsCommentLine(n) == StartsWith(Strip(DecodeUtf8BackslashReplace(w3c.lines[n])), CommentMark)

\* The non-comment lines met before any "#Fields" line.
BeforeFields(n) ==
    /\ n \in DOMAIN w3c.lines
    /\ ~IsCommentLine(n)
    /\ \A k \in 1..n : ~IsFieldsLine(k)

\* C19 (as claimed): no line raises, and every non-comment line met before
\* any "#Fields" line, a blank line included, has been warned about and
\* skipped once the loop is past it: no record was yielded for it and the
\* loop went on to the next line.
C19_LinesBeforeFieldsSkipped ==
    /\ w3c.pc # "raised"
    /\ \A n \in DOMAIN w3c.lines :
          (BeforeFields(n) /\ n < w3c.at) =>
              /\ \E x \in DOMAIN w3c.warnings : w3c.warnings[x].line = n
              /\ \A x \in DOMAIN w3c.records : w3c.records[x].line # n

\* Expanded records rs are, as far as they go, names x dates in file-major
\* order: record n (from 0) carries name n div M and date n mod M.
FileMajor(rs, names, dates) ==
    \A n \in DOMAIN rs :
        /\ ((n - 1) \div Len(dates)) + 1 \in DOMAIN names
        /\ rs[n].linkedfile = FsPath(names[((n - 1) \div Len(dates)) + 1])
        /\ rs[n].ts = dates[((n - 1) % Len(dates)) + 1]

\* C20: with compact = False the records of a decoded file come file-major:
\* all records of the K-th referenced file before any of the (K+1)-th, and
\* for each referenced file the latest timestamp first, then the previous
\* timestamps in slot order; the records of one prefetch file are contiguous
\* and the files come in directory order.
C20_ExpandedOrder ==
    ~compact =>
        /\ \A i \in 1..Len(results) :
              results[i].status = "decoded" =>
                  /\ FileMajor(RecordsOf(i), results[i].obj.metrics.v,
                               <<View(results[i].obj).latest>> \o View(results[i].obj).previous)
                  /\ IsValid(i) =>
                        FileMajor(RecordsOf(i), Meaning(i).names,
                                  <<Meaning(i).lastUs>> \o Meaning(i).prevUs)
        /\ \A a, b \in DOMAIN records :
              a < b => PositionOf(records[a]) <= PositionOf(records[b])
        /\ \A n \in DOMAIN records : records[n].type = "expanded"

\* C20 witness: a file of two names and three run timestamps yielded its six
\* records, then a second file yielded its own.
C20_Witness ==
    /\ ~compact /\ pc = "done" /\ Len(results) = 2
    /\ IsValid(1) /\ results[1].status = "decoded"
    /\ Len(Meaning(1).names) = 2 /\ Len(Meaning(1).prevUs) = 2
    /\ Len(RecordsOf(1)) = 6
    /\ RecordsOf(2) # << >>
    /\ Len(records) = 6 + Len(RecordsOf(2))

=============================================================================
